---- MODULE Spec2Model ----
(* Conflict-resolution voting of karrot (karrot/issues/models.py):          *)
(* Issue, Voting, Option and Vote rows and the operations on them.         *)
(*                                                                         *)
(* Rows are named so that states differing only in the order in which an   *)
(* unordered query returned rows coincide: an Option by <<voting, type, k>>*)
(* (the k-th option of that type in its voting) and a Vote by the number   *)
(* of rows ever created for its (user, option) pair. Both names are, like  *)
(* a primary key, never reused, and no operation reads a primary key.      *)
EXTENDS Integers, Sequences, FiniteSets, Bags, TLC

\* ---------------------------------------------------------------- bounds
MaxIssues == 1
MaxVotings == 3
MaxVoteRows == 1
MaxTallyVotings == 2
MaxLedgerRows == 2
MaxRaceRows == 2
MaxInFlight == 2
MaxTime == 3
MaxClockVotings == 2
MaxRequestRows == 2
MaxFrameRows == 1
MaxFrameVotings == 2
MaxFrameTime == 3
MaxTrusts == 3
MaxTrustHistory == 2
MaxThreshold == 3
MaxLeaveTrusts == 2
MaxLeaveHistory == 1
MaxMessages == 2
MaxMediaRows == 2
MaxEntries == 1
\* settings.VOTING_DURATION_DAYS, in steps of the clock
VOTING_DURATION_DAYS == 2

Users == {"u1", "u2"}
\* the users an issue is about; users are interchangeable, one is enough
Affected == {"u2"}
Groups == {"g1"}
Scores == {-1, 0, 1}

\* ------------------------------------------------------------- constants
ONGOING == "ongoing"
DECIDED == "decided"
CANCELLED == "cancelled"
IssueStatus == {ONGOING, DECIDED, CANCELLED}

FURTHER_DISCUSSION == "further_discussion"
NO_CHANGE == "no_change"
REMOVE_USER == "remove_user"
OptionTypes == {FURTHER_DISCUSSION, NO_CHANGE, REMOVE_USER}

MEMBER_REMOVED == "MEMBER_REMOVED"
MEMBER_BECAME_EDITOR == "MEMBER_BECAME_EDITOR"
USER_LOST_EDITOR_ROLE == "USER_LOST_EDITOR_ROLE"
MEMBER_GOT_ROLE == "MEMBER_GOT_ROLE"

GROUP_EDITOR == "editor"

\* a nullable column: None, or a one-element tuple holding the value
None == <<>>
Some(x) == <<x>>

VARIABLES
    issues,        \* Issue rows: id -> [status, status_changed_at, group, affected_user]
    votings,       \* Voting rows: id -> [issue, expires_at, accepted_option]
    options,       \* Option rows: <<voting, type, k>> -> [sum_score]
    votes,         \* Vote rows: set of [user, option, score, row]
    voteRows,      \* <<user, option>> -> number of Vote rows ever created for the pair
    memberships,   \* GroupMembership rows: set of <<group, user>>
    history,       \* History rows, in creation order
    nullsLast,     \* whether the database sorts NULL after every value
    now,           \* timezone.now()
    trusts,        \* Trust rows: set of [membership, given_by, role]
    roles,         \* GroupMembership.roles: set of <<membership, role>>
    outbox,        \* the emails sent, in their order
    messages,      \* ConversationMessage rows: id -> [content]
    images,        \* ConversationMessageImage rows: id -> [message, position], or None once deleted
    attachments,   \* ConversationMessageAttachment rows: id -> [message, position], or None once deleted
    inFlight,      \* save_votes calls that have read the user's votes and not yet written
    last           \* the most recent call: what it was, returned and emitted

vars == <<issues, votings, options, votes, voteRows, memberships, history, nullsLast, now,
          trusts, roles, outbox, messages, images, attachments, inFlight, last>>

\* what no operation on issues, votings and votes changes, given that no
\* trust exists when a membership is deleted
fixed == <<nullsLast, now, trusts, roles, outbox, messages, images, attachments>>

\* --------------------------------------------------------------- queries
\* every order in which a query may return the rows of S
Perms(S) == {s \in [1..Cardinality(S) -> S] : \A i, j \in DOMAIN s : i # j => s[i] # s[j]}

OptionVoting(o) == o[1]
OptionType(o) == o[2]

\* self.options of a Voting
VotingOptions(opt_rows, v) == {o \in DOMAIN opt_rows : OptionVoting(o) = v}

\* self.votings of an Issue
IssueVotings(voting_rows, i) == {v \in DOMAIN voting_rows : voting_rows[v].issue = i}

UserVotes_of_everyone(vote_rows, v, u) == {x \in vote_rows : OptionVoting(x.option) = v}

\* Vote.objects.filter(option__voting=self, user=user)
UserVotes(vote_rows, v, u) == {x \in vote_rows : x.user = u /\ OptionVoting(x.option) = v}

RECURSIVE SumOf(_)
SumOf(S) == IF S = {} THEN 0 ELSE LET x == CHOOSE y \in S : TRUE IN x.score + SumOf(S \ {x})

\* Sum('votes__score'): NULL for an option without votes
SumScore(vote_rows, o) ==
    LET mine == {x \in vote_rows : x.option = o}
    IN IF mine = {} THEN None ELSE Some(SumOf(mine))

\* ascending ORDER BY on a nullable column: a may stand before b
MayPrecede(a, b, nulls_last) ==
    CASE a = None /\ b = None -> TRUE
      [] a = None -> ~nulls_last
      [] b = None -> nulls_last
      [] OTHER -> a[1] <= b[1]

\* self.options.annotate(_sum_score=Sum('votes__score')).order_by('_sum_score'):
\* every order of the round's options the database may return
OrderBySumScore(vote_rows, opt_rows, v, nulls_last) ==
    {s \in Perms(VotingOptions(opt_rows, v)) :
        \A i, j \in DOMAIN s :
            i < j => MayPrecede(SumScore(vote_rows, s[i]), SumScore(vote_rows, s[j]), nulls_last)}

\* ------------------------------------------------------------------ rows
\* the primary key the next row of a table without deletions gets
NextId(rows) == Cardinality(DOMAIN rows) + 1

NoOption == <<>>

\* what `last` holds for a call: the operation, the flags delete_votes and
\* is_expired returned, the votes save_votes returned, the writes and events it made in their
\* order, and the exception it raised
NoCall ==
    [op |-> "none", deleted |-> FALSE, expired |-> FALSE, returned |-> {},
     events |-> <<>>, error |-> "none"]

\* self.options.create(type=t) on voting v
OptionCreate(opt_rows, v, t) ==
    LET k == Cardinality({o \in VotingOptions(opt_rows, v) : OptionType(o) = t}) + 1
    IN opt_rows @@ (<<v, t, k>> :> [sum_score |-> None])

\* self.options.create(type=...) once for each type of the list, in its order
RECURSIVE CreateOptionsOfTypes(_, _, _)
CreateOptionsOfTypes(opt_rows, v, types) ==
    IF types = <<>> THEN opt_rows
    ELSE CreateOptionsOfTypes(OptionCreate(opt_rows, v, Head(types)), v, Tail(types))

create_options_without_remove_user(opt_rows, v) ==
    CreateOptionsOfTypes(opt_rows, v, <<FURTHER_DISCUSSION, NO_CHANGE>>)

\* Voting.create_options
create_options(opt_rows, v) ==
    CreateOptionsOfTypes(opt_rows, v, <<FURTHER_DISCUSSION, NO_CHANGE, REMOVE_USER>>)

\* voting_expiration_time()
voting_expiration_time == now + VOTING_DURATION_DAYS

\* self.votings.create() on issue i
VotingCreate(voting_rows, i) ==
    voting_rows @@ (NextId(voting_rows) :> [issue |-> i, expires_at |-> voting_expiration_time,
                                            accepted_option |-> NoOption])

\* Issue.save after the row is written: a first voting with its options when
\* the issue has none; gives the Voting and Option tables
IssueSave(voting_rows, opt_rows, i) ==
    IF Cardinality(IssueVotings(voting_rows, i)) = 0
    THEN <<VotingCreate(voting_rows, i), create_options(opt_rows, NextId(voting_rows))>>
    ELSE <<voting_rows, opt_rows>>

\* no message was written
NoMessages ==
    /\ messages = <<>>
    /\ images = <<>>
    /\ attachments = <<>>

\* no trust was given, every member is a newcomer, no email was sent
NoTrust ==
    /\ trusts = {}
    /\ roles = {}
    /\ outbox = <<>>

\* --------------------------------------------------------------- actions
Init ==
    /\ NoTrust
    /\ issues = <<>>
    /\ votings = <<>>
    /\ options = <<>>
    /\ votes = {}
    /\ voteRows = <<>>
    /\ memberships = Groups \X Users
    /\ history = <<>>
    /\ nullsLast \in BOOLEAN
    /\ now = 0
    /\ NoMessages
    /\ inFlight = EmptyBag
    /\ last = NoCall

\* Issue(group=..., affected_user=...).save() of a new issue
CreateIssue(g, affected) ==
    /\ LET i == NextId(issues)
           saved == IssueSave(votings, options, i)
       IN /\ issues' = issues @@ (i :> [status |-> ONGOING, status_changed_at |-> None,
                                          group |-> g, affected_user |-> affected])
          /\ votings' = saved[1]
          /\ options' = saved[2]
          /\ last' = [NoCall EXCEPT !.op = "create_issue",
                                    !.events = <<"stats.issue_created", "issue_changed">>]
    /\ UNCHANGED <<votes, voteRows, memberships, history, fixed, inFlight>>

\* every vote_data a caller may pass for voting v: a score for each of some
\* of the round's options
VoteData(opt_rows, v) ==
    UNION {[S -> Scores] : S \in SUBSET VotingOptions(opt_rows, v)}

\* the number of Vote rows ever created for (u, o)
RowsCreated(rows_created, u, o) ==
    IF <<u, o>> \in DOMAIN rows_created THEN rows_created[<<u, o>>] ELSE 0

RECURSIVE TotalRows(_)
TotalRows(rows_created) ==
    IF DOMAIN rows_created = {} THEN 0
    ELSE LET p == CHOOSE q \in DOMAIN rows_created : TRUE
         IN rows_created[p] + TotalRows([q \in DOMAIN rows_created \ {p} |-> rows_created[q]])

\* the vote of `mine` on option o, as votes.get(option_id, None); {} when none
VoteOn(mine, o) == {x \in mine : x.option = o}

UniqueTogether_unconstrained(vote_rows, u, o) == TRUE

\* unique_together = ('user', 'option'): whether a row for (u, o) may be inserted
UniqueTogether(vote_rows, u, o) == ~\E x \in vote_rows : x.user = u /\ x.option = o

SameScore_any(old, score) == old # {}

SameScore_never(old, score) == FALSE

\* option_id in votes and votes[option_id].score == score
SameScore(old, score) == old # {} /\ (CHOOSE x \in old : TRUE).score = score

\* the loop of save_votes over vote_data.items(), from the items still to do;
\* st carries the Vote table, the rows created per pair and the created and
\* existing lists. An iteration reads and writes only the votes of its own
\* option, so the order of the items does not change the outcome.
RECURSIVE SaveVotesLoop(_, _, _, _, _)
SaveVotesLoop(st, vote_data, todo, mine, u) ==
    IF todo = {} \/ st.error # "none" THEN st
    ELSE LET o == CHOOSE x \in todo : TRUE
             score == vote_data[o]
             old == VoteOn(mine, o)
         IN IF SameScore(old, score)
            THEN SaveVotesLoop([st EXCEPT !.existing = @ \cup old],
                               vote_data, todo \ {o}, mine, u)
            ELSE LET kept == st.votes \ old
                     n == RowsCreated(st.rows, u, o) + 1
                     new == [user |-> u, option |-> o, score |-> score, row |-> n]
                 IN IF ~UniqueTogether(kept, u, o)
                    THEN [st EXCEPT !.votes = kept, !.error = "IntegrityError"]
                    ELSE SaveVotesLoop([st EXCEPT !.votes = kept \cup {new},
                                                  !.rows = (<<u, o>> :> n) @@ @,
                                                  !.created = @ \cup {new}],
                                       vote_data, todo \ {o}, mine, u)

SaveVotesStats_changed_only(prior, created) ==
    IF Cardinality(created) > 0 THEN <<"stats.vote_changed">> ELSE <<>>

\* the usage event of save_votes
SaveVotesStats(prior, created) ==
    IF Cardinality(prior) = 0 THEN <<"stats.voted">>
    ELSE IF Cardinality(created) > 0 THEN <<"stats.vote_changed">>
    ELSE <<>>

\* the broadcast of save_votes
SaveVotesSignal(created) ==
    IF Cardinality(created) > 0 THEN <<"issue_changed">> ELSE <<>>

SaveVotesReturn_created(created, existing) == created

\* return created + existing
SaveVotesReturn(created, existing) == created \cup existing

\* Voting.save_votes(user, vote_data) on voting v from the loop on, with
\* `prior` the votes its first line read
SaveVotesWrite(v, u, vote_data, prior) ==
    LET st == SaveVotesLoop([votes |-> votes, rows |-> voteRows, created |-> {},
                             existing |-> {}, error |-> "none"],
                            vote_data, DOMAIN vote_data, prior, u)
    IN /\ votes' = st.votes
       /\ voteRows' = st.rows
       /\ last' = [NoCall EXCEPT !.op = "save_votes", !.error = st.error,
                                 !.returned = IF st.error # "none" THEN {}
                                              ELSE SaveVotesReturn(st.created, st.existing),
                                 !.events = IF st.error # "none" THEN <<>>
                                            ELSE SaveVotesStats(prior, st.created)
                                                 \o SaveVotesSignal(st.created)]
       /\ UNCHANGED <<issues, votings, options, memberships, history, fixed>>

\* Voting.save_votes(user, vote_data) on voting v, run without interruption
SaveVotes(v, u, vote_data) ==
    /\ SaveVotesWrite(v, u, vote_data, UserVotes(votes, v, u))
    /\ UNCHANGED inFlight

ValidVoteData_any(opt_rows, v, vote_data) == TRUE

\* the check of a vote request before save_votes is called: every option of
\* vote_data is an option of voting v
ValidVoteData(opt_rows, v, vote_data) == DOMAIN vote_data \subseteq VotingOptions(opt_rows, v)

\* a vote request of user u on voting v: the check, then save_votes
SubmitVotes(v, u, vote_data) ==
    IF ValidVoteData(options, v, vote_data)
    THEN SaveVotes(v, u, vote_data)
    ELSE /\ last' = [NoCall EXCEPT !.op = "save_votes", !.error = "ValidationError"]
         /\ UNCHANGED <<issues, votings, options, votes, voteRows, memberships, history,
                        fixed, inFlight>>

\* the first line of save_votes: the call reads the user's votes of the voting
BeginSaveVotes(v, u, vote_data) ==
    /\ inFlight' = inFlight (+) SetToBag({[voting |-> v, user |-> u, vote_data |-> vote_data,
                                           votes |-> UserVotes(votes, v, u)]})
    /\ UNCHANGED <<issues, votings, options, votes, voteRows, memberships, history, fixed, last>>

\* the rest of save_votes for a call in flight
EndSaveVotes(call) ==
    /\ SaveVotesWrite(call.voting, call.user, call.vote_data, call.votes)
    /\ inFlight' = inFlight (-) SetToBag({call})

DeleteVotesEvents_always(deleted) == <<"stats.vote_deleted", "issue_changed">>

\* the usage event and the broadcast of delete_votes
DeleteVotesEvents(deleted) ==
    IF deleted THEN <<"stats.vote_deleted", "issue_changed">> ELSE <<>>

\* Voting.delete_votes(user) on voting v
DeleteVotes(v, u) ==
    LET prior == UserVotes(votes, v, u)
        deleted == Cardinality(prior) > 0
    IN /\ votes' = votes \ prior
       /\ last' = [NoCall EXCEPT !.op = "delete_votes", !.deleted = deleted,
                                 !.events = DeleteVotesEvents(deleted)]
       /\ UNCHANGED <<issues, votings, options, voteRows, memberships, history, fixed, inFlight>>

\* the first option of the list with the given type:
\* next(o for o in options if o.type == t)
FirstOfType(order, t) ==
    order[CHOOSE k \in DOMAIN order :
            /\ OptionType(order[k]) = t
            /\ \A j \in DOMAIN order : j < k => OptionType(order[j]) # t]

AcceptedOption_last(order, opt_rows) == order[Len(order)]

\* the accepted option of calculate_results: the last option of the sorted
\* list, or further_discussion when the last two have equal sums
AcceptedOption(order, opt_rows) ==
    LET n == Len(order)
    IN IF opt_rows[order[n - 1]].sum_score = opt_rows[order[n]].sum_score
       THEN FirstOfType(order, FURTHER_DISCUSSION)
       ELSE order[n]

\* option.sum_score = option._sum_score; option.save() for the round's options
SaveSums(opt_rows, vote_rows, v) ==
    [o \in DOMAIN opt_rows |->
        IF OptionVoting(o) = v
        THEN [opt_rows[o] EXCEPT !.sum_score = SumScore(vote_rows, o)]
        ELSE opt_rows[o]]

Decides_only_remove_user(type) == type = REMOVE_USER

\* whether do_action of an option of this type calls issue.decide()
Decides(type) == type # FURTHER_DISCUSSION

SetStatus_undated(issue_rows, i, status) == [issue_rows EXCEPT ![i].status = status]

\* Issue.decide / Issue.cancel: the status and its time written to issue i
SetStatus(issue_rows, i, status) ==
    [issue_rows EXCEPT ![i].status = status, ![i].status_changed_at = Some(now)]

\* the types of a set of options, one entry for each option, in the order
\* options.all() returns them; options of one type are interchangeable
RECURSIVE TypesOf(_)
TypesOf(S) ==
    IF S = {} THEN <<>>
    ELSE LET o == CHOOSE x \in S : TRUE IN <<OptionType(o)>> \o TypesOf(S \ {o})

further_discussion_without_options(voting_rows, opt_rows, v) ==
    <<VotingCreate(voting_rows, voting_rows[v].issue), opt_rows>>

\* Option._further_discussion of an option of voting v: a new voting on the
\* same issue and one option for each option of v, of the same type
further_discussion(voting_rows, opt_rows, v) ==
    <<VotingCreate(voting_rows, voting_rows[v].issue),
      CreateOptionsOfTypes(opt_rows, NextId(voting_rows), TypesOf(VotingOptions(opt_rows, v)))>>

remove_user_membership_kept(membership_rows, member) == membership_rows

\* Option._remove_user: membership.delete()
remove_user_membership(membership_rows, member) == membership_rows \ {member}

\* Option._remove_user: History.objects.create(typus=MEMBER_REMOVED, ...)
remove_user_history(history_rows, member) ==
    Append(history_rows, [typus |-> MEMBER_REMOVED, group |-> member[1], user |-> member[2]])

\* Voting.calculate_results on voting v
CalculateResults(v) ==
    \E order \in OrderBySumScore(votes, options, v, nullsLast) :
        LET i == votings[v].issue
            summed == SaveSums(options, votes, v)
            accepted == AcceptedOption(order, summed)
            type == OptionType(accepted)
            accepted_saved == [votings EXCEPT ![v].accepted_option = accepted]
            decided == IF Decides(type) THEN SetStatus(issues, i, DECIDED) ELSE issues
            resaved == IF Decides(type) THEN IssueSave(accepted_saved, summed, i)
                       ELSE <<accepted_saved, summed>>
            member == <<issues[i].group, issues[i].affected_user>>
            writes == [k \in DOMAIN order |-> "option.save"] \o <<"voting.save">>
                      \o (IF Decides(type) THEN <<"issue.decide">> ELSE <<>>)
            call == [NoCall EXCEPT !.op = "calculate_results"]
        IN /\ Len(order) >= 2
           /\ issues' = decided
           /\ IF type = FURTHER_DISCUSSION
              THEN /\ votings' = further_discussion(resaved[1], resaved[2], v)[1]
                   /\ options' = further_discussion(resaved[1], resaved[2], v)[2]
                   /\ UNCHANGED <<memberships, history>>
                   /\ last' = [call EXCEPT !.events = writes \o <<"voting.create", "issue_changed">>]
              ELSE /\ votings' = resaved[1]
                   /\ options' = resaved[2]
                   /\ IF type = REMOVE_USER
                      THEN IF member \in memberships
                           THEN /\ memberships' = remove_user_membership(memberships, member)
                                /\ history' = remove_user_history(history, member)
                                /\ last' = [call EXCEPT !.events = writes \o
                                       <<"membership.delete", "history.create", "issue_changed">>]
                           ELSE /\ UNCHANGED <<memberships, history>>
                                /\ last' = [call EXCEPT !.events = writes, !.error = "DoesNotExist"]
                      ELSE /\ UNCHANGED <<memberships, history>>
                           /\ last' = [call EXCEPT !.events = writes \o <<"issue_changed">>]
           /\ UNCHANGED <<votes, voteRows, fixed, inFlight>>

\* Issue.cancel on issue i
Cancel(i) ==
    LET saved == IssueSave(votings, options, i)
    IN /\ issues' = SetStatus(issues, i, CANCELLED)
       /\ votings' = saved[1]
       /\ options' = saved[2]
       /\ last' = [NoCall EXCEPT !.op = "cancel", !.events = <<"issue_changed">>]
       /\ UNCHANGED <<votes, voteRows, memberships, history, fixed, inFlight>>

\* Voting.is_expired at time t
is_expired(expires_at, t) == expires_at < t

\* Voting.is_expired() on voting v
IsExpired(v) ==
    /\ last' = [NoCall EXCEPT !.op = "is_expired",
                              !.expired = is_expired(votings[v].expires_at, now)]
    /\ UNCHANGED <<issues, votings, options, votes, voteRows, memberships, history,
                   fixed, inFlight>>

\* time passes
Tick ==
    /\ now' = now + 1
    /\ UNCHANGED <<issues, votings, options, votes, voteRows, memberships, history,
                   nullsLast, trusts, roles, outbox, messages, images, attachments,
                   inFlight, last>>

\* ------------------------------------------------- the issue's life cycle
\* Every operation that writes, on any issue and voting, by any user, in any
\* order and at one time. The tables are kept within the bounds.
Next ==
    \/ \E g \in Groups, affected \in Affected :
           CreateIssue(g, affected) /\ Cardinality(DOMAIN issues') <= MaxIssues
    \/ \E v \in DOMAIN votings, u \in Users :
           \E vote_data \in VoteData(options, v) :
               /\ Cardinality(DOMAIN vote_data)
                      <= MaxVoteRows - TotalRows(voteRows) + Cardinality(UserVotes(votes, v, u))
               /\ SaveVotes(v, u, vote_data)
               /\ TotalRows(voteRows') <= MaxVoteRows
    \/ \E v \in DOMAIN votings, u \in Users : DeleteVotes(v, u)
    \/ \E v \in DOMAIN votings :
           CalculateResults(v) /\ Cardinality(DOMAIN votings') <= MaxVotings
    \/ \E i \in DOMAIN issues : Cancel(i)

Spec == Init /\ [][Next]_vars

\* ------------------------------------------------------------- the tally
\* One issue as Issue.save created it and, on its first voting, any votes the
\* users may have saved: at most one per user and option, each the first row
\* of its pair. From there the votings are tallied, any number of times, and
\* the issue may be cancelled.
Ballots ==
    UNION {[S -> Scores] : S \in SUBSET (Users \X VotingOptions(create_options(<<>>, 1), 1))}

BallotVotes(b) == {[user |-> c[1], option |-> c[2], score |-> b[c], row |-> 1] : c \in DOMAIN b}

InitTally ==
    /\ now = 0
    /\ NoTrust
    /\ issues = <<[status |-> ONGOING, status_changed_at |-> None,
                   group |-> "g1", affected_user |-> "u2"]>>
    /\ votings = IssueSave(<<>>, <<>>, 1)[1]
    /\ options = IssueSave(<<>>, <<>>, 1)[2]
    /\ \E b \in Ballots :
          /\ votes = BallotVotes(b)
          /\ voteRows = [c \in DOMAIN b |-> 1]
    /\ memberships = Groups \X Users
    /\ history = <<>>
    /\ nullsLast \in BOOLEAN
    /\ NoMessages
    /\ inFlight = EmptyBag
    /\ last = [NoCall EXCEPT !.op = "save_votes"]

NextTally ==
    \/ \E v \in DOMAIN votings :
           CalculateResults(v) /\ Cardinality(DOMAIN votings') <= MaxTallyVotings
    \/ \E i \in DOMAIN issues : Cancel(i)

SpecTally == InitTally /\ [][NextTally]_vars

\* ------------------------------------------------------------- the clock
\* One issue as Issue.save created it at time 0, with any votes one user may
\* have saved on its first voting. Time passes; the votings are asked whether
\* they are expired and tallied, and the issue is cancelled, at any time.
ClockBallots ==
    UNION {[S -> Scores] : S \in SUBSET ({"u1"} \X VotingOptions(create_options(<<>>, 1), 1))}

InitClock ==
    /\ now = 0
    /\ NoTrust
    /\ issues = <<[status |-> ONGOING, status_changed_at |-> None,
                   group |-> "g1", affected_user |-> "u2"]>>
    /\ votings = IssueSave(<<>>, <<>>, 1)[1]
    /\ options = IssueSave(<<>>, <<>>, 1)[2]
    /\ \E b \in ClockBallots :
          /\ votes = BallotVotes(b)
          /\ voteRows = [c \in DOMAIN b |-> 1]
    /\ memberships = Groups \X Users
    /\ history = <<>>
    /\ nullsLast \in BOOLEAN
    /\ NoMessages
    /\ inFlight = EmptyBag
    /\ last = [NoCall EXCEPT !.op = "save_votes"]

NextClock ==
    \/ Tick /\ now' <= MaxTime
    \/ \E v \in DOMAIN votings : IsExpired(v)
    \/ \E v \in DOMAIN votings :
           CalculateResults(v) /\ Cardinality(DOMAIN votings') <= MaxClockVotings
    \/ \E i \in DOMAIN issues : Cancel(i)

SpecClock == InitClock /\ [][NextClock]_vars

\* -------------------------------------------------------- the vote ledger
\* One issue as Issue.save created it; the users save and delete votes on its
\* voting in any order. No operation here sorts, so the database's place for
\* NULL is fixed.
InitLedger ==
    /\ now = 0
    /\ NoTrust
    /\ issues = <<[status |-> ONGOING, status_changed_at |-> None,
                   group |-> "g1", affected_user |-> "u2"]>>
    /\ votings = IssueSave(<<>>, <<>>, 1)[1]
    /\ options = IssueSave(<<>>, <<>>, 1)[2]
    /\ votes = {}
    /\ voteRows = <<>>
    /\ memberships = Groups \X Users
    /\ history = <<>>
    /\ nullsLast = TRUE
    /\ NoMessages
    /\ inFlight = EmptyBag
    /\ last = [NoCall EXCEPT !.op = "create_issue",
                             !.events = <<"stats.issue_created", "issue_changed">>]

NextLedger ==
    \/ \E v \in DOMAIN votings, u \in Users :
           \E vote_data \in VoteData(options, v) :
               /\ Cardinality(DOMAIN vote_data)
                      <= MaxLedgerRows - TotalRows(voteRows) + Cardinality(UserVotes(votes, v, u))
               /\ SaveVotes(v, u, vote_data)
               /\ TotalRows(voteRows') <= MaxLedgerRows
    \/ \E v \in DOMAIN votings, u \in Users : DeleteVotes(v, u)

SpecLedger == InitLedger /\ [][NextLedger]_vars

\* ------------------------------------------------- votes at any moment
\* One issue as Issue.save created it at time 0, looked at some time later:
\* its votings are tallied, once each, and votes are saved and deleted on
\* votings that are open, expired or tallied.
\* Each call saves a score for one option.
FrameScores == {0, 1}
FrameTypes == {NO_CHANGE, REMOVE_USER}

FrameVoteData(opt_rows, v) ==
    {d \in VoteData(opt_rows, v) :
        /\ Cardinality(DOMAIN d) = 1
        /\ \A o \in DOMAIN d : OptionType(o) \in FrameTypes /\ d[o] \in FrameScores}

InitFrame ==
    /\ now \in 0 .. MaxFrameTime
    /\ NoTrust
    /\ issues = <<[status |-> ONGOING, status_changed_at |-> None,
                   group |-> "g1", affected_user |-> "u2"]>>
    /\ votings = <<[issue |-> 1, expires_at |-> VOTING_DURATION_DAYS,
                    accepted_option |-> NoOption]>>
    /\ options = create_options(<<>>, 1)
    /\ votes = {}
    /\ voteRows = <<>>
    /\ memberships = Groups \X Users
    /\ history = <<>>
    /\ nullsLast = TRUE
    /\ NoMessages
    /\ inFlight = EmptyBag
    /\ last = NoCall

NextFrame ==
    \/ \E v \in DOMAIN votings, u \in Users :
           \E vote_data \in FrameVoteData(options, v) :
               /\ SaveVotes(v, u, vote_data)
               /\ TotalRows(voteRows') <= MaxFrameRows
    \/ \E v \in DOMAIN votings, u \in Users : DeleteVotes(v, u)
    \/ \E v \in DOMAIN votings :
           /\ votings[v].accepted_option = NoOption
           /\ CalculateResults(v)
           /\ Cardinality(DOMAIN votings') <= MaxFrameVotings

SpecFrame == InitFrame /\ [][NextFrame]_vars

\* ------------------------------------------------------ concurrent saves
\* As the vote ledger, with save_votes calls of any users running at the same
\* time: each reads the user's votes, and writes at any later moment. A call
\* that writes right after it read is a call run alone. Each call saves a
\* score for one option.
RaceUsers == {"u1", "u2"}
RaceTypes == {NO_CHANGE, REMOVE_USER}
RaceScores == {0, 1}

\* a score for one of the voting's options
RaceVoteData(opt_rows, v) ==
    {d \in VoteData(opt_rows, v) :
        /\ Cardinality(DOMAIN d) = 1
        /\ \A o \in DOMAIN d : OptionType(o) \in RaceTypes /\ d[o] \in RaceScores}

InitRace ==
    /\ InitLedger

NextRace ==
    \/ \E v \in DOMAIN votings, u \in RaceUsers :
           \E vote_data \in RaceVoteData(options, v) :
               /\ BagCardinality(inFlight) < MaxInFlight
               /\ TotalRows(voteRows) < MaxRaceRows
               /\ BeginSaveVotes(v, u, vote_data)
    \/ \E call \in BagToSet(inFlight) :
           EndSaveVotes(call) /\ TotalRows(voteRows') <= MaxRaceRows
    \/ \E v \in DOMAIN votings, u \in RaceUsers : DeleteVotes(v, u)

SpecRace == InitRace /\ [][NextRace]_vars

\* ---------------------------------------------------------- vote requests
\* One issue whose first voting, without votes, was tallied and opened a
\* second voting. A user sends vote requests for either voting, naming
\* options of any voting, and deletes votes.
RequestUsers == {"u1"}
RequestScores == {0, 1}

RequestTypes == {NO_CHANGE, REMOVE_USER}

\* the options of the two votings that requests name
RequestOptions ==
    {o \in VotingOptions(create_options(<<>>, 1), 1) \cup VotingOptions(create_options(<<>>, 2), 2) :
        OptionType(o) \in RequestTypes}

\* vote_data of a request: a score for each of up to two options
RequestVoteData ==
    UNION {[S -> RequestScores] : S \in {T \in SUBSET RequestOptions : Cardinality(T) <= 2}}

InitRequest ==
    /\ now = 0
    /\ NoTrust
    /\ issues = <<[status |-> ONGOING, status_changed_at |-> None,
                   group |-> "g1", affected_user |-> "u2"]>>
    /\ LET created == IssueSave(<<>>, <<>>, 1)
           tallied == [created[1] EXCEPT ![1].accepted_option = <<1, FURTHER_DISCUSSION, 1>>]
       IN /\ votings = further_discussion(tallied, created[2], 1)[1]
          /\ options = further_discussion(tallied, created[2], 1)[2]
    /\ votes = {}
    /\ voteRows = <<>>
    /\ memberships = Groups \X Users
    /\ history = <<>>
    /\ nullsLast = TRUE
    /\ NoMessages
    /\ inFlight = EmptyBag
    /\ last = [NoCall EXCEPT !.op = "calculate_results",
                             !.events = <<"option.save", "option.save", "option.save",
                                          "voting.save", "voting.create", "issue_changed">>]

NextRequest ==
    \/ \E v \in DOMAIN votings, u \in RequestUsers :
           \E vote_data \in RequestVoteData :
               SubmitVotes(v, u, vote_data) /\ TotalRows(voteRows') <= MaxRequestRows
    \/ \E v \in DOMAIN votings, u \in RequestUsers : DeleteVotes(v, u)

SpecRequest == InitRequest /\ [][NextRequest]_vars

\* ------------------------------------------------------------------ trust
TrustUsers == {"u1", "u2", "u3"}
TrustRoles == {GROUP_EDITOR, "someotherrole"}

\* the memberships that receive trust
Trusted == {<<"g1", "u1">>}

\* the values group.trust_threshold_for_newcomer() and role.threshold take
Thresholds == 1 .. MaxThreshold

\* Trust.objects.filter(membership=membership, role=role)
RelevantTrust(trust_rows, m, role) ==
    {t \in trust_rows : t.membership = m /\ t.role = role}

\* membership.add_roles(rs); membership.save()
add_roles(role_rows, m, rs) == role_rows \cup {<<m, r>> : r \in rs}

\* membership.remove_roles(rs); membership.save()
remove_roles(role_rows, m, rs) == role_rows \ {<<m, r>> : r \in rs}

\* History.objects.create(typus=..., group=membership.group,
\* users=[membership.user], payload=...)
TrustHistory(typus, m, payload) ==
    [typus |-> typus, group |-> m[1], user |-> m[2], payload |-> payload]

\* prepare_user_..._email(user=membership.user, group=membership.group).send()
TrustEmail(template, m) == [template |-> template, user |-> m[2], group |-> m[1]]

BecomesEditor_again(count, threshold, is_editor) == count >= threshold

\* relevant_trust_count >= trust_threshold and GROUP_EDITOR not in membership.roles
BecomesEditor(count, threshold, is_editor) == count >= threshold /\ ~is_editor

LosesEditor_newcomer(count, threshold, is_editor) == count < threshold

\* relevant_trust.count() < trust_threshold and GROUP_EDITOR in membership.roles
LosesEditor(count, threshold, is_editor) == count < threshold /\ is_editor

\* Trust.objects.create(membership=m, given_by=giver, role=role) and its
\* post_save receiver trust_given, with the threshold the group or the role
\* has at that moment
GiveTrust(m, giver, role, threshold) ==
    LET trust == [membership |-> m, given_by |-> giver, role |-> role]
        count == Cardinality(RelevantTrust(trusts \cup {trust}, m, role))
        call == [NoCall EXCEPT !.op = "trust_given"]
    IN /\ trust \notin trusts
       /\ trusts' = trusts \cup {trust}
       /\ IF role = GROUP_EDITOR
          THEN IF BecomesEditor(count, threshold, <<m, GROUP_EDITOR>> \in roles)
               THEN /\ roles' = add_roles(roles, m, {GROUP_EDITOR})
                    /\ history' = Append(history, TrustHistory(MEMBER_BECAME_EDITOR, m,
                                                               [threshold |-> threshold]))
                    /\ outbox' = Append(outbox, TrustEmail("user_became_editor", m))
                    /\ last' = [call EXCEPT !.events = <<"stats.member_became_editor",
                                                         "stats.trust_given">>]
               ELSE /\ UNCHANGED <<roles, history, outbox>>
                    /\ last' = [call EXCEPT !.events = <<"stats.trust_given">>]
          ELSE IF count >= threshold
               THEN /\ roles' = add_roles(roles, m, {role})
                    /\ history' = Append(history, TrustHistory(MEMBER_GOT_ROLE, m,
                                                               [role |-> role]))
                    /\ outbox' = Append(outbox, TrustEmail("user_got_role", m))
                    /\ last' = [call EXCEPT !.events = <<"stats.trust_given">>]
               ELSE /\ UNCHANGED <<roles, history, outbox>>
                    /\ last' = [call EXCEPT !.events = <<"stats.trust_given">>]
       /\ UNCHANGED <<issues, votings, options, votes, voteRows, memberships,
                      nullsLast, now, messages, images, attachments, inFlight>>

\* trust.save() of a trust that exists: trust_given returns at once
ResaveTrust(trust) ==
    /\ last' = [NoCall EXCEPT !.op = "trust_saved"]
    /\ UNCHANGED <<issues, votings, options, votes, voteRows, memberships, history,
                   fixed, inFlight>>

\* trust.delete() and its post_delete receiver trust_revoked, with the
\* threshold the group has at that moment
RevokeTrust(trust, threshold) ==
    LET m == trust.membership
        count == Cardinality(RelevantTrust(trusts \ {trust}, m, GROUP_EDITOR))
        call == [NoCall EXCEPT !.op = "trust_revoked"]
    IN /\ trusts' = trusts \ {trust}
       /\ IF trust.role = GROUP_EDITOR
             /\ LosesEditor(count, threshold, <<m, GROUP_EDITOR>> \in roles)
          THEN /\ roles' = remove_roles(roles, m, {GROUP_EDITOR})
               /\ history' = Append(history, TrustHistory(USER_LOST_EDITOR_ROLE, m,
                                                          [threshold |-> threshold]))
               /\ outbox' = Append(outbox, TrustEmail("user_lost_editor_role", m))
               /\ last' = [call EXCEPT !.events = <<"stats.user_lost_editor_role",
                                                    "stats.trust_revoked">>]
          ELSE /\ UNCHANGED <<roles, history, outbox>>
               /\ last' = [call EXCEPT !.events = <<"stats.trust_revoked">>]
       /\ UNCHANGED <<issues, votings, options, votes, voteRows, memberships,
                      nullsLast, now, messages, images, attachments, inFlight>>

\* A group of three members, where u1 is a newcomer or an editor. The members
\* give u1 trust for the roles and revoke it, while the thresholds move.
InitTrust ==
    /\ now = 0
    /\ issues = <<>>
    /\ votings = <<>>
    /\ options = <<>>
    /\ votes = {}
    /\ voteRows = <<>>
    /\ memberships = Groups \X TrustUsers
    /\ history = <<>>
    /\ nullsLast = TRUE
    /\ trusts = {}
    /\ roles \in SUBSET {<<m, GROUP_EDITOR>> : m \in Trusted}
    /\ outbox = <<>>
    /\ NoMessages
    /\ inFlight = EmptyBag
    /\ last = NoCall

NextTrust ==
    \/ \E m \in Trusted, giver \in TrustUsers, role \in TrustRoles, threshold \in Thresholds :
           /\ Cardinality(trusts) < MaxTrusts
           /\ GiveTrust(m, giver, role, threshold)
           /\ Len(history') <= MaxTrustHistory
    \/ \E trust \in trusts : ResaveTrust(trust)
    \/ \E trust \in trusts, threshold \in Thresholds :
           RevokeTrust(trust, threshold) /\ Len(history') <= MaxTrustHistory

SpecTrust == InitTrust /\ [][NextTrust]_vars

\* ------------------------------------------------------- leaving a group
LeaveGroups == {"g1", "g2"}
LeaveUsers == {"u1", "u2"}

\* the post_delete receiver trust_revoked for a trust whose row is gone from
\* st.trusts; st carries the tables and the events of the call
trust_revoked(st, trust, threshold) ==
    LET m == trust.membership
        count == Cardinality(RelevantTrust(st.trusts, m, GROUP_EDITOR))
    IN IF trust.role = GROUP_EDITOR
         /\ LosesEditor(count, threshold, <<m, GROUP_EDITOR>> \in st.roles)
       THEN [st EXCEPT !.roles = remove_roles(@, m, {GROUP_EDITOR}),
                       !.history = Append(@, TrustHistory(USER_LOST_EDITOR_ROLE, m,
                                                          [threshold |-> threshold])),
                       !.outbox = Append(@, TrustEmail("user_lost_editor_role", m)),
                       !.events = @ \o <<"stats.user_lost_editor_role",
                                         "stats.trust_revoked">>]
       ELSE [st EXCEPT !.events = Append(@, "stats.trust_revoked")]

\* the post_delete signals of a deleted batch of trusts, in their order
RECURSIVE trust_revoked_each(_, _, _, _)
trust_revoked_each(st, order, k, threshold) ==
    IF k > Len(order) THEN st
    ELSE trust_revoked_each(trust_revoked(st, order[k], threshold), order, k + 1, threshold)

remove_trust_everywhere(trust_rows, m) == {t \in trust_rows : t.given_by = m[2]}

\* Trust.objects.filter(given_by=membership.user, membership__group=membership.group)
remove_trust(trust_rows, m) ==
    {t \in trust_rows : t.given_by = m[2] /\ t.membership[1] = m[1]}

\* the trusts that point to a membership and are deleted with it
TrustOf(trust_rows, m) == {t \in trust_rows : t.membership = m}

\* membership.delete(): the pre_delete receivers group_member_removed and
\* remove_trust, whose deletions run trust_revoked; then the trusts the
\* membership received go, running trust_revoked while the membership still
\* exists; then the membership goes, and its roles with it
DeleteMembership(m, threshold) ==
    LET given == remove_trust(trusts, m)
        received == TrustOf(trusts \ given, m)
        st0 == [trusts |-> trusts \ given, roles |-> roles, history |-> history,
                outbox |-> outbox, events |-> <<"stats.group_left">>]
    IN /\ m \in memberships
       /\ \E order1 \in Perms(given), order2 \in Perms(received) :
             LET st1 == trust_revoked_each(st0, order1, 1, threshold)
                 st2 == trust_revoked_each([st1 EXCEPT !.trusts = @ \ received],
                                           order2, 1, threshold)
             IN /\ trusts' = st2.trusts
                /\ roles' = {r \in st2.roles : r[1] # m}
                /\ history' = st2.history
                /\ outbox' = st2.outbox
                /\ last' = [NoCall EXCEPT !.op = "membership.delete", !.events = st2.events]
       /\ memberships' = memberships \ {m}
       /\ UNCHANGED <<issues, votings, options, votes, voteRows, nullsLast, now,
                      messages, images, attachments, inFlight>>

\* Two groups with the same two members: u2 is an editor of both, u1 is a
\* newcomer or an editor of each. Members give trust to the other member of
\* a group and leave.
InitLeave ==
    /\ now = 0
    /\ issues = <<>>
    /\ votings = <<>>
    /\ options = <<>>
    /\ votes = {}
    /\ voteRows = <<>>
    /\ memberships = LeaveGroups \X LeaveUsers
    /\ history = <<>>
    /\ nullsLast = TRUE
    /\ trusts = {}
    /\ \E newcomer \in SUBSET LeaveGroups :
          roles = {<<m, GROUP_EDITOR>> : m \in (LeaveGroups \X LeaveUsers)
                                                \ (newcomer \X {"u1"})}
    /\ outbox = <<>>
    /\ NoMessages
    /\ inFlight = EmptyBag
    /\ last = NoCall

NextLeave ==
    \/ \E m \in memberships, giver \in LeaveUsers, role \in TrustRoles, threshold \in Thresholds :
           /\ Cardinality(trusts) < MaxLeaveTrusts
           /\ giver # m[2]
           /\ <<m[1], giver>> \in memberships
           /\ GiveTrust(m, giver, role, threshold)
           /\ Len(history') <= MaxLeaveHistory
    \/ \E m \in memberships, threshold \in Thresholds :
           DeleteMembership(m, threshold) /\ Len(history') <= MaxLeaveHistory

SpecLeave == InitLeave /\ [][NextLeave]_vars

\* ------------------------------------------------- members who are gone
\* One issue with any votes of one user on its first voting. Members leave
\* the group, the affected user among them, and the votings are tallied.
NextGone ==
    \/ \E m \in memberships, threshold \in Thresholds : DeleteMembership(m, threshold)
    \/ \E v \in DOMAIN votings :
           CalculateResults(v) /\ Cardinality(DOMAIN votings') <= MaxClockVotings

SpecGone == InitClock /\ [][NextGone]_vars

\* ---------------------------------------------------- messages and media
Contents == {"a", "b"}
Positions == {0, 1}

\* an entry of validated_data['images'] or ['attachments']: the id when one
\* was submitted, whether _removed was submitted as true, and the fields of
\* the row
MediaEntries ==
    {e \in [id : {None} \cup {Some(k) : k \in 1 .. MaxMediaRows}, removed : BOOLEAN,
            position : Positions] : e.id = None => ~e.removed}

\* the lists of entries a request may carry
MediaLists == UNION {[1 .. n -> MediaEntries] : n \in 0 .. MaxEntries}

\* the entries of a new message: without id and _removed
NewMediaLists == {l \in MediaLists : \A k \in DOMAIN l : l[k].id = None}

\* the rows of a table that exist
Existing(rows) == {k \in DOMAIN rows : rows[k] # None}

\* objects.create(message=message, **entry)
MediaCreate(rows, m, e) == Append(rows, Some([message |-> m, position |-> e.position]))

\* objects.filter(pk=pk)
MediaWhere(rows, pk) == {k \in Existing(rows) : k = pk}

\* the loop of update over the entries of one kind, from entry k on
RECURSIVE MediaUpdate(_, _, _, _)
MediaUpdate(rows, m, entries, k) ==
    IF k > Len(entries) THEN rows
    ELSE LET e == entries[k]
             hit == IF e.id = None THEN {} ELSE MediaWhere(rows, e.id[1])
             next == IF e.id = None THEN MediaCreate(rows, m, e)
                     ELSE IF e.removed
                     THEN [j \in DOMAIN rows |-> IF j \in hit THEN None ELSE rows[j]]
                     ELSE [j \in DOMAIN rows |->
                              IF j \in hit THEN Some([rows[j][1] EXCEPT !.position = e.position])
                              ELSE rows[j]]
         IN MediaUpdate(next, m, entries, k + 1)

\* ConversationMessageSerializer.create
CreateMessage(content, new_images, new_attachments) ==
    LET m == NextId(messages)
    IN /\ messages' = Append(messages, [content |-> content])
       /\ images' = MediaUpdate(images, m, new_images, 1)
       /\ attachments' = MediaUpdate(attachments, m, new_attachments, 1)
       /\ last' = [NoCall EXCEPT !.op = "message.create", !.returned = {m}]
       /\ UNCHANGED <<issues, votings, options, votes, voteRows, memberships, history,
                      nullsLast, now, trusts, roles, outbox, inFlight>>

\* ConversationMessageSerializer.update on message m
UpdateMessage(m, content, new_images, new_attachments) ==
    /\ images' = MediaUpdate(images, m, new_images, 1)
    /\ attachments' = MediaUpdate(attachments, m, new_attachments, 1)
    /\ messages' = [messages EXCEPT ![m].content = content]
    /\ last' = [NoCall EXCEPT !.op = "message.update", !.returned = {m}]
    /\ UNCHANGED <<issues, votings, options, votes, voteRows, memberships, history,
                   nullsLast, now, trusts, roles, outbox, inFlight>>

\* A conversation without messages. Messages are written with images and
\* attachments, and updated with any entries a request may carry.
InitMessage ==
    /\ now = 0
    /\ NoTrust
    /\ NoMessages
    /\ issues = <<>>
    /\ votings = <<>>
    /\ options = <<>>
    /\ votes = {}
    /\ voteRows = <<>>
    /\ memberships = Groups \X Users
    /\ history = <<>>
    /\ nullsLast = TRUE
    /\ inFlight = EmptyBag
    /\ last = NoCall

NextMessage ==
    \/ \E content \in Contents, new_images \in NewMediaLists, new_attachments \in NewMediaLists :
           /\ Len(messages) < MaxMessages
           /\ CreateMessage(content, new_images, new_attachments)
           /\ Len(images') <= MaxMediaRows
           /\ Len(attachments') <= MaxMediaRows
    \/ \E m \in DOMAIN messages, content \in Contents :
           \E new_images \in MediaLists, new_attachments \in MediaLists :
               /\ UpdateMessage(m, content, new_images, new_attachments)
               /\ Len(images') <= MaxMediaRows
               /\ Len(attachments') <= MaxMediaRows

SpecMessage == InitMessage /\ [][NextMessage]_vars

\* ================================================================ claims
\* the member whose removal issue i is about
AffectedMember(i) == <<issues[i].group, issues[i].affected_user>>

\* the options of voting v that have votes
Voted(v) == {o \in VotingOptions(options, v) : SumScore(votes, o) # None}

\* the highest of the sums of the votes of voting v's options
IsHighest(v, o) ==
    /\ o \in Voted(v)
    /\ \A c \in Voted(v) : SumScore(votes, c)[1] <= SumScore(votes, o)[1]

\* two options of voting v share the highest sum
TieAtTop(v) ==
    \E a, b \in Voted(v) : a # b /\ IsHighest(v, a) /\ IsHighest(v, b)

\* o alone has the highest sum of voting v, and another option has a sum too
UniqueHighest(v, o) ==
    /\ IsHighest(v, o)
    /\ Cardinality(Voted(v)) >= 2
    /\ \A c \in Voted(v) : c # o => ~IsHighest(v, c)

\* C1: whenever the two highest sums of a round's options are equal, the tally
\* accepts further_discussion, so it accepts neither no_change nor
\* remove_user and does not set the issue to decided.
C1_TieAcceptsFurtherDiscussion ==
    [][\A v \in DOMAIN votings :
          CalculateResults(v) /\ TieAtTop(v)
          => /\ OptionType(votings'[v].accepted_option) = FURTHER_DISCUSSION
             /\ issues' = issues]_vars

\* C2: when one option alone has the highest sum, the tally accepts it and
\* runs its action: no_change and remove_user decide the issue, further
\* discussion opens a new voting.
C2_HighestSumWins ==
    [][\A v \in DOMAIN votings : \A o \in VotingOptions(options, v) :
          CalculateResults(v) /\ UniqueHighest(v, o)
          => /\ votings'[v].accepted_option = o
             /\ OptionType(o) # FURTHER_DISCUSSION => issues'[votings[v].issue].status = DECIDED
             /\ OptionType(o) = FURTHER_DISCUSSION => DOMAIN votings' # DOMAIN votings]_vars

\* the issue of voting v
IssueOf(v) == votings[v].issue

\* C3: when the tally accepts remove_user and the affected user is a member
\* of the issue's group, afterwards the membership is gone, exactly one
\* MEMBER_REMOVED entry for that group and user has been added to the
\* history, the issue is decided and no voting has been created.
C3_RemoveUserRemovesMember ==
    [][\A v \in DOMAIN votings :
          /\ CalculateResults(v)
          /\ OptionType(votings'[v].accepted_option) = REMOVE_USER
          /\ AffectedMember(IssueOf(v)) \in memberships
          => /\ AffectedMember(IssueOf(v)) \notin memberships'
             /\ memberships' = memberships \ {AffectedMember(IssueOf(v))}
             /\ Len(history') = Len(history) + 1
             /\ SubSeq(history', 1, Len(history)) = history
             /\ history'[Len(history')] =
                    [typus |-> MEMBER_REMOVED, group |-> issues[IssueOf(v)].group,
                     user |-> issues[IssueOf(v)].affected_user]
             /\ issues'[IssueOf(v)].status = DECIDED
             /\ DOMAIN votings' = DOMAIN votings]_vars

\* C3 witness: a tally has just removed the affected member
C3_Witness ==
    /\ last.op = "calculate_results"
    /\ last.error = "none"
    /\ \E v \in DOMAIN votings :
          /\ votings[v].accepted_option # NoOption
          /\ OptionType(votings[v].accepted_option) = REMOVE_USER
          /\ issues[IssueOf(v)].status = DECIDED
          /\ AffectedMember(IssueOf(v)) \notin memberships
    /\ Len(history) = 1

\* C4: when the tally accepts no_change the issue becomes decided and nothing
\* else changes: no membership is removed, no history entry is created, no
\* voting is created and no vote is altered.
C4_NoChangeOnlyDecides ==
    [][\A v \in DOMAIN votings :
          /\ CalculateResults(v)
          /\ OptionType(votings'[v].accepted_option) = NO_CHANGE
          => /\ issues' = [issues EXCEPT ![IssueOf(v)].status = DECIDED,
                                          ![IssueOf(v)].status_changed_at = Some(now)]
             /\ memberships' = memberships
             /\ history' = history
             /\ DOMAIN votings' = DOMAIN votings
             /\ DOMAIN options' = DOMAIN options
             /\ \A w \in DOMAIN votings : w # v => votings'[w] = votings[w]
             /\ \A o \in DOMAIN options : OptionVoting(o) # v => options'[o] = options[o]
             /\ votes' = votes
             /\ voteRows' = voteRows]_vars

\* C4 witness: a tally of an ongoing issue has just accepted no_change
C4_Witness ==
    /\ last.op = "calculate_results"
    /\ last.events = <<"option.save", "option.save", "option.save", "voting.save",
                       "issue.decide", "issue_changed">>
    /\ \E v \in DOMAIN votings :
          /\ votings[v].accepted_option # NoOption
          /\ OptionType(votings[v].accepted_option) = NO_CHANGE
          /\ issues[IssueOf(v)].status = DECIDED
    /\ votes # {}

\* the votes on the options of voting v
VotesOn(vote_rows, v) == {x \in vote_rows : OptionVoting(x.option) = v}

\* C5: when the tally accepts further_discussion the issue's status is left
\* as it was (an ongoing issue stays ongoing) and exactly one voting is added,
\* to the same issue; it has exactly one option of each type, each with a
\* null sum and no votes, and no accepted option; no vote is carried over.
C5_FurtherDiscussionOpensVoting ==
    [][\A v \in DOMAIN votings :
          /\ CalculateResults(v)
          /\ OptionType(votings'[v].accepted_option) = FURTHER_DISCUSSION
          => /\ issues' = issues
             /\ \E w \in DOMAIN votings' :
                   /\ DOMAIN votings' = DOMAIN votings \cup {w}
                   /\ w \notin DOMAIN votings
                   /\ votings'[w].issue = IssueOf(v)
                   /\ votings'[w].accepted_option = NoOption
                   /\ DOMAIN options' = DOMAIN options \cup VotingOptions(options', w)
                   /\ VotingOptions(options, w) = {}
                   /\ Cardinality(VotingOptions(options', w)) = 3
                   /\ \A t \in OptionTypes :
                         \E o \in VotingOptions(options', w) : OptionType(o) = t
                   /\ \A o \in VotingOptions(options', w) : options'[o].sum_score = None
                   /\ VotesOn(votes', w) = {}
             /\ votes' = votes]_vars

\* C5 witness: a tally of a voting with votes has just opened a second voting
C5_Witness ==
    /\ last.op = "calculate_results"
    /\ Cardinality(DOMAIN votings) = 2
    /\ issues[1].status = ONGOING
    /\ OptionType(votings[1].accepted_option) = FURTHER_DISCUSSION
    /\ Cardinality(VotesOn(votes, 1)) >= 3
    /\ VotesOn(votes, 2) = {}

\* the votings of issue i without an accepted option
Untallied(i) == {v \in IssueVotings(votings, i) : votings[v].accepted_option = NoOption}

\* C6: every ongoing issue has exactly one voting without an accepted option,
\* and no issue has more than one.
C6_OneUntalliedVoting ==
    \A i \in DOMAIN issues :
        /\ issues[i].status = ONGOING => Cardinality(Untallied(i)) = 1
        /\ Cardinality(Untallied(i)) <= 1

\* C7: every voting has exactly three options, one of each type, and the
\* sum_score of each stays null until calculate_results ran on the voting.
C7_ThreeOptionsNullUntilTally ==
    \A v \in DOMAIN votings :
        /\ Cardinality(VotingOptions(options, v)) = 3
        /\ \A t \in OptionTypes :
              Cardinality({o \in VotingOptions(options, v) : OptionType(o) = t}) = 1
        /\ votings[v].accepted_option = NoOption
              => \A o \in VotingOptions(options, v) : options[o].sum_score = None

\* C7 witness: an untallied voting opened by further_discussion on a voting
\* whose options have sums
C7_Witness ==
    /\ Cardinality(DOMAIN votings) >= 2
    /\ \E v \in DOMAIN votings :
          /\ votings[v].accepted_option # NoOption
          /\ \A o \in VotingOptions(options, v) : options[o].sum_score # None
    /\ \E v \in DOMAIN votings :
          /\ votings[v].accepted_option = NoOption
          /\ v > 1

\* C8: the Vote table holds at most one vote for each user and option.
C8_OneVotePerUserAndOption ==
    \A x, y \in votes : x.user = y.user /\ x.option = y.option => x = y

\* C8 witness: a save_votes call whose read was overtaken by another call's
\* write has tried to insert a second vote for its user and option
C8_Witness ==
    /\ last.op = "save_votes"
    /\ last.error = "IntegrityError"
    /\ votes # {}

\* C9: a decided issue has a voting whose accepted option is of type
\* no_change or remove_user.
C9_DecidedHasDecidingOption ==
    \A i \in DOMAIN issues :
        issues[i].status = DECIDED
        => \E v \in IssueVotings(votings, i) :
               /\ votings[v].accepted_option # NoOption
               /\ OptionType(votings[v].accepted_option) \in {NO_CHANGE, REMOVE_USER}

\* the votes user u holds on option o
Held(vote_rows, u, o) == {x \in vote_rows : x.user = u /\ x.option = o}

\* C10: after save_votes(user, vote_data) the user holds exactly one vote on
\* every option of vote_data, with the submitted score: the row the user held
\* before when that had the same score; a row created by the call, in place of
\* the deleted one, when the user held a vote with another score; a row
\* created by the call when the user held none.
C10_SaveVotesStoresScores ==
    [][\A v \in DOMAIN votings, u \in Users : \A vote_data \in VoteData(options, v) :
          SaveVotes(v, u, vote_data)
          => \A o \in DOMAIN vote_data :
                 /\ Cardinality(Held(votes', u, o)) = 1
                 /\ \A x \in Held(votes', u, o) :
                        /\ x.score = vote_data[o]
                        /\ \A old \in Held(votes, u, o) :
                               IF old.score = vote_data[o]
                               THEN x = old
                               ELSE old \notin votes' /\ x.row = RowsCreated(voteRows, u, o) + 1
                        /\ Held(votes, u, o) = {} => x.row = RowsCreated(voteRows, u, o) + 1]_vars

\* C10 witness: a save_votes call has just replaced a vote by one with
\* another score
C10_Witness ==
    /\ last.op = "save_votes"
    /\ last.error = "none"
    /\ last.events = <<"stats.vote_changed", "issue_changed">>
    /\ \E x \in votes : x.row = 2

\* the votes of user u that hold vote_data: one on each of its options, with
\* its score
Stored(vote_rows, u, vote_data) ==
    {x \in vote_rows : x.user = u /\ x.option \in DOMAIN vote_data
                                  /\ x.score = vote_data[x.option]}

\* the call before was save_votes(u, vote_data): it returned without error
\* the votes of u that hold vote_data
JustSaved(u, vote_data) ==
    /\ last.op = "save_votes"
    /\ last.error = "none"
    /\ last.returned = Stored(votes, u, vote_data)
    /\ Cardinality(last.returned) = Cardinality(DOMAIN vote_data)

\* C11: a save_votes call right after a save_votes call of the same user with
\* the same vote_data creates no vote, deletes no vote, leaves the Vote table
\* as it is and returns the votes the first call returned.
C11_SaveVotesIdempotent ==
    [][\A v \in DOMAIN votings, u \in Users : \A vote_data \in VoteData(options, v) :
          JustSaved(u, vote_data) /\ SaveVotes(v, u, vote_data)
          => /\ votes' = votes
             /\ voteRows' = voteRows
             /\ last'.error = "none"
             /\ last'.returned = last.returned]_vars

\* C11 witness: a save_votes call has found every vote of its vote_data
\* stored already and returned them
C11_Witness ==
    /\ last.op = "save_votes"
    /\ last.error = "none"
    /\ last.events = <<>>
    /\ Cardinality(last.returned) = 2
    /\ \E x \in votes : x.row = 1

\* C12: save_votes returns exactly the votes the user holds on the voting
\* after the call.
C12_SaveVotesReturnsAllVotes ==
    [][\A v \in DOMAIN votings, u \in Users : \A vote_data \in VoteData(options, v) :
          SaveVotes(v, u, vote_data) => last'.returned = UserVotes(votes', v, u)]_vars

\* how often event e is in the list
Occurrences(events, e) == Cardinality({k \in DOMAIN events : events[k] = e})

\* C13: save_votes emits the voted event, once, exactly when the user held
\* no vote on the voting before the call; otherwise it emits the vote_changed
\* event, once, exactly when the call created a vote; it never emits both,
\* and emits neither when the user held votes and the call changed nothing.
C13_SaveVotesUsageEvents ==
    [][\A v \in DOMAIN votings, u \in Users : \A vote_data \in VoteData(options, v) :
          SaveVotes(v, u, vote_data)
          => LET first == UserVotes(votes, v, u) = {}
                 changed == votes' \ votes # {}
                 n_voted == Occurrences(last'.events, "stats.voted")
                 n_changed == Occurrences(last'.events, "stats.vote_changed")
             IN /\ n_voted = IF first THEN 1 ELSE 0
                /\ n_changed = IF ~first /\ changed THEN 1 ELSE 0
                /\ n_voted + n_changed <= 1
                /\ ~first /\ votes' = votes => n_voted + n_changed = 0]_vars

\* C13 witness: a user has just saved a first vote on a voting on which
\* another user holds a vote
C13_Witness ==
    /\ last.op = "save_votes"
    /\ last.events = <<"stats.voted", "issue_changed">>
    /\ \E x, y \in votes : x.user # y.user

\* C14: delete_votes removes every vote of the user on the voting and no
\* other vote, and returns true exactly when the user held a vote on it; the
\* vote_deleted event and the issue_changed broadcast are emitted, once each,
\* exactly when it returns true.
C14_DeleteVotesReturnsDeleted ==
    [][\A v \in DOMAIN votings, u \in Users :
          DeleteVotes(v, u)
          => LET held == UserVotes(votes, v, u) # {}
             IN /\ UserVotes(votes', v, u) = {}
                /\ votes' = votes \ UserVotes(votes, v, u)
                /\ last'.deleted = held
                /\ Occurrences(last'.events, "stats.vote_deleted") = IF held THEN 1 ELSE 0
                /\ Occurrences(last'.events, "issue_changed") = IF held THEN 1 ELSE 0
                /\ Len(last'.events) = IF held THEN 2 ELSE 0]_vars

\* C14 witness: delete_votes has just deleted the votes of a user and left
\* the vote of another user
C14_Witness ==
    /\ last.op = "delete_votes"
    /\ last.deleted
    /\ votes # {}

\* C15: is_expired() of a voting is true exactly when the time is at or
\* after the voting's expires_at.
C15_ExpiredFromExpiresAt ==
    [][\A v \in DOMAIN votings :
          IsExpired(v) => (last'.expired <=> now >= votings[v].expires_at)]_vars

\* C16: cancel can be called on any issue, whatever its votes; it sets the
\* status to cancelled and status_changed_at to the time of the call, emits
\* issue_changed once, and leaves every voting, option, accepted option and
\* vote as it was.
C16_CancelOnlySetsStatus ==
    /\ [](\A i \in DOMAIN issues : ENABLED Cancel(i))
    /\ [][\A i \in DOMAIN issues :
             Cancel(i)
             => /\ issues' = [issues EXCEPT ![i].status = CANCELLED,
                                             ![i].status_changed_at = Some(now)]
                /\ Occurrences(last'.events, "issue_changed") = 1
                /\ votings' = votings
                /\ options' = options
                /\ votes' = votes
                /\ voteRows' = voteRows]_vars

\* C16 witness: an issue with votes and an untallied voting has just been
\* cancelled, after some time
C16_Witness ==
    /\ last.op = "cancel"
    /\ \E i \in DOMAIN issues :
          /\ issues[i].status = CANCELLED
          /\ issues[i].status_changed_at = Some(now)
          /\ now > 0
          /\ Untallied(i) # {}
    /\ Cardinality(votes) = 3

CreatesOverNewer(call, o) ==
    /\ ~SameScore(VoteOn(call.votes, o), call.vote_data[o])
    /\ Held(votes, call.user, o) # {}
    /\ Held(votes, call.user, o) \cap call.votes = {}

\* C19: when save_votes calls of a user for an option overlap, the Vote table
\* never holds two votes of the user for the option: the creation of the
\* call that writes second is rejected by the uniqueness constraint, and the
\* call ends with that error, returns nothing and emits nothing.
C19_OverlappingSavesConflict ==
    [][\A call \in BagToSet(inFlight) :
          /\ EndSaveVotes(call)
          /\ \E o \in DOMAIN call.vote_data : CreatesOverNewer(call, o)
          => /\ last'.error = "IntegrityError"
             /\ last'.returned = {}
             /\ last'.events = <<>>
             /\ \A x, y \in votes' : x.user = y.user /\ x.option = y.option => x = y]_vars

\* C19 witness: two save_votes calls of a user for an option read that the
\* user held no vote on it; one has created the vote, the other has then
\* been rejected and is the only call that ever failed
C19_Witness ==
    /\ last.op = "save_votes"
    /\ last.error = "IntegrityError"
    /\ inFlight = EmptyBag
    /\ Cardinality(votes) = 1
    /\ TotalRows(voteRows) = 1

BecameEditorEntry(m, e) ==
    e.typus = MEMBER_BECAME_EDITOR /\ e.group = m[1] /\ e.user = m[2]

BecameEditorEmail(m, e) ==
    e.template = "user_became_editor" /\ e.group = m[1] /\ e.user = m[2]

\* History.objects.filter(typus=MEMBER_BECAME_EDITOR).count() for a membership
BecameEditorEntries(log, m) ==
    Cardinality({k \in DOMAIN log : BecameEditorEntry(m, log[k])})

\* the number of 'user_became_editor' emails to a member in mail.outbox
BecameEditorEmails(box, m) ==
    Cardinality({k \in DOMAIN box : BecameEditorEmail(m, box[k])})

\* C20: when a trust for the editor role is created for a membership, the
\* membership gains the editor role, and exactly one MEMBER_BECAME_EDITOR
\* history entry and one 'user_became_editor' email are produced, if and only
\* if its count of editor trust, the new trust included, has reached the
\* threshold of the group and it does not hold the editor role; otherwise,
\* and so whenever it holds the editor role already, its roles, the history
\* and the outbox stay as they were.
C20_TrustGivenMakesEditor ==
    [][\A m \in Trusted, giver \in TrustUsers, threshold \in Thresholds :
          GiveTrust(m, giver, GROUP_EDITOR, threshold)
          => LET count == Cardinality(RelevantTrust(trusts', m, GROUP_EDITOR))
             IN IF count >= threshold /\ <<m, GROUP_EDITOR>> \notin roles
                THEN /\ roles' = roles \cup {<<m, GROUP_EDITOR>>}
                     /\ Len(history') = Len(history) + 1
                     /\ SubSeq(history', 1, Len(history)) = history
                     /\ BecameEditorEntries(history', m) = BecameEditorEntries(history, m) + 1
                     /\ Len(outbox') = Len(outbox) + 1
                     /\ SubSeq(outbox', 1, Len(outbox)) = outbox
                     /\ BecameEditorEmails(outbox', m) = BecameEditorEmails(outbox, m) + 1
                ELSE /\ roles' = roles
                     /\ history' = history
                     /\ outbox' = outbox]_vars

\* C20 witness: the second editor trust has just made a newcomer an editor
\* of a group whose threshold is two
C20_Witness ==
    /\ last.op = "trust_given"
    /\ \E m \in Trusted :
          /\ Cardinality(RelevantTrust(trusts, m, GROUP_EDITOR)) = 2
          /\ <<m, GROUP_EDITOR>> \in roles
          /\ Len(history) = 1
          /\ BecameEditorEntry(m, history[1])
          /\ history[1].payload = [threshold |-> 2]
          /\ Len(outbox) = 1
          /\ BecameEditorEmail(m, outbox[1])

LostEditorEntry(m, e) ==
    e.typus = USER_LOST_EDITOR_ROLE /\ e.group = m[1] /\ e.user = m[2]

LostEditorEmail(m, e) ==
    e.template = "user_lost_editor_role" /\ e.group = m[1] /\ e.user = m[2]

\* History.objects.filter(typus=USER_LOST_EDITOR_ROLE).count() for a membership
LostEditorEntries(log, m) ==
    Cardinality({k \in DOMAIN log : LostEditorEntry(m, log[k])})

\* the number of 'user_lost_editor_role' emails to a member in mail.outbox
LostEditorEmails(box, m) ==
    Cardinality({k \in DOMAIN box : LostEditorEmail(m, box[k])})

\* C21: when a trust for the editor role is deleted, the trusted membership
\* loses the editor role, and exactly one USER_LOST_EDITOR_ROLE history entry
\* and one 'user_lost_editor_role' email are produced, if and only if its
\* remaining count of editor trust is below the threshold of the group and it
\* holds the editor role; otherwise its roles, the history and the outbox
\* stay as they were.
C21_TrustRevokedTakesEditor ==
    [][\A trust \in trusts, threshold \in Thresholds :
          RevokeTrust(trust, threshold) /\ trust.role = GROUP_EDITOR
          => LET m == trust.membership
                 count == Cardinality(RelevantTrust(trusts', m, GROUP_EDITOR))
             IN IF count < threshold /\ <<m, GROUP_EDITOR>> \in roles
                THEN /\ roles' = roles \ {<<m, GROUP_EDITOR>>}
                     /\ Len(history') = Len(history) + 1
                     /\ SubSeq(history', 1, Len(history)) = history
                     /\ LostEditorEntries(history', m) = LostEditorEntries(history, m) + 1
                     /\ Len(outbox') = Len(outbox) + 1
                     /\ SubSeq(outbox', 1, Len(outbox)) = outbox
                     /\ LostEditorEmails(outbox', m) = LostEditorEmails(outbox, m) + 1
                ELSE /\ roles' = roles
                     /\ history' = history
                     /\ outbox' = outbox]_vars

\* C21 witness: an editor who held one editor trust has just lost it, and
\* with it the editor role, in a group whose threshold is two
C21_Witness ==
    /\ last.op = "trust_revoked"
    /\ \E m \in Trusted :
          /\ RelevantTrust(trusts, m, GROUP_EDITOR) = {}
          /\ <<m, GROUP_EDITOR>> \notin roles
          /\ Len(history) = 1
          /\ LostEditorEntry(m, history[1])
          /\ history[1].payload = [threshold |-> 2]
          /\ Len(outbox) = 1
          /\ LostEditorEmail(m, outbox[1])

\* C22: when the membership of a user in group G is deleted, every trust
\* the user has given to memberships of G is deleted, and every trust the
\* user has given to memberships of other groups is left as it was.
C22_LeavingRemovesGivenTrust ==
    [][\A m \in memberships, threshold \in Thresholds :
          DeleteMembership(m, threshold)
          => \A t \in trusts :
                t.given_by = m[2] => (t \in trusts' <=> t.membership[1] # m[1])]_vars

\* C22 witness: a user who had given trust in two groups has just left
\* one of them, and only the trust given in the other group exists
C22_Witness ==
    /\ last.op = "membership.delete"
    /\ <<"g1", "u2">> \notin memberships
    /\ <<"g2", "u2">> \in memberships
    /\ trusts = {[membership |-> <<"g2", "u1">>, given_by |-> "u2", role |-> GROUP_EDITOR]}
    /\ Len(history) = 1
    /\ LostEditorEntry(<<"g1", "u1">>, history[1])

\* the writes an accepted option's action makes
EffectWrites == {"issue.decide", "membership.delete", "history.create", "voting.create"}

\* C23: within one calculate_results call the sum of each of the three
\* options is saved first, then the accepted option of the voting, then the
\* accepted option's action writes, and then exactly one issue_changed
\* signal is sent, as the last step of the call.
C23_TallyStepsInOrder ==
    [][\A v \in DOMAIN votings :
          CalculateResults(v)
          => LET e == last'.events
             IN /\ Len(e) >= 5
                /\ \A k \in 1 .. 3 : e[k] = "option.save"
                /\ e[4] = "voting.save"
                /\ \A k \in 5 .. Len(e) - 1 : e[k] \in EffectWrites
                /\ e[Len(e)] = "issue_changed"
                /\ Occurrences(e, "issue_changed") = 1]_vars

\* the votes a call added to or took from the Vote table
VotesChanged == (votes \ votes') \cup (votes' \ votes)

C25_DecidedAndCancelledAreTerminal ==
    [][\A i \in DOMAIN issues :
          issues[i].status \in {DECIDED, CANCELLED}
          => issues'[i].status = issues[i].status]_vars

\* C26: an ongoing issue has no voting whose accepted option is of type
\* no_change or remove_user: every tallied voting of an ongoing issue
\* accepted further_discussion.
C26_OngoingHasNoDecidingOption ==
    \A i \in DOMAIN issues :
        issues[i].status = ONGOING
        => \A v \in IssueVotings(votings, i) :
               votings[v].accepted_option # NoOption
               => OptionType(votings[v].accepted_option) = FURTHER_DISCUSSION

\* C26 witness: an ongoing issue has a tallied voting and an open one
C26_Witness ==
    \E i \in DOMAIN issues :
        /\ issues[i].status = ONGOING
        /\ \E v, w \in IssueVotings(votings, i) :
               /\ votings[v].accepted_option # NoOption
               /\ votings[w].accepted_option = NoOption
               /\ VotesOn(votes, v) # {}

\* C27: the tally accepts an option without votes only when it is the
\* further_discussion option; it never accepts a no_change or remove_user
\* option that has no votes.
C27_UnvotedOptionNotAccepted ==
    [][\A v \in DOMAIN votings :
          CalculateResults(v) /\ SumScore(votes, votings'[v].accepted_option) = None
          => OptionType(votings'[v].accepted_option) = FURTHER_DISCUSSION]_vars

\* C28: calculate_results on a voting without any vote accepts
\* further_discussion: the issue stays as it was, no membership is removed
\* and no history is written, and exactly one voting is added, to the same
\* issue, with one option of each type and a null sum for each.
C28_NoVotesOpensVoting ==
    [][\A v \in DOMAIN votings :
          CalculateResults(v) /\ VotesOn(votes, v) = {}
          => /\ OptionType(votings'[v].accepted_option) = FURTHER_DISCUSSION
             /\ issues' = issues
             /\ memberships' = memberships
             /\ history' = history
             /\ \E w \in DOMAIN votings' :
                   /\ DOMAIN votings' = DOMAIN votings \cup {w}
                   /\ w \notin DOMAIN votings
                   /\ votings'[w].issue = IssueOf(v)
                   /\ votings'[w].accepted_option = NoOption
                   /\ DOMAIN options' = DOMAIN options \cup VotingOptions(options', w)
                   /\ {OptionType(o) : o \in VotingOptions(options', w)} = OptionTypes
                   /\ Cardinality(VotingOptions(options', w)) = 3
                   /\ \A o \in VotingOptions(options', w) : options'[o].sum_score = None]_vars

\* C28 witness: the first voting of an ongoing issue has just been tallied
\* without a vote, and a second voting exists
C28_Witness ==
    /\ last.op = "calculate_results"
    /\ last.error = "none"
    /\ votes = {}
    /\ Cardinality(DOMAIN votings) = 2
    /\ OptionType(votings[1].accepted_option) = FURTHER_DISCUSSION
    /\ votings[2].accepted_option = NoOption
    /\ issues[1].status = ONGOING
    /\ memberships = Groups \X Users

\* C29: when calculate_results accepts remove_user and the affected user
\* has no membership in the issue's group, the call fails with an error,
\* leaves the status of the issue as it was, writes no history entry and
\* sends no issue_changed signal.
C29_RemoveUserWithoutMembershipFails ==
    [][\A v \in DOMAIN votings :
          /\ CalculateResults(v)
          /\ OptionType(votings'[v].accepted_option) = REMOVE_USER
          /\ AffectedMember(IssueOf(v)) \notin memberships
          => /\ last'.error # "none"
             /\ issues'[IssueOf(v)].status = issues[IssueOf(v)].status
             /\ history' = history
             /\ Occurrences(last'.events, "issue_changed") = 0]_vars

\* the rows of a table that belong to other messages than m and that a call
\* deleted or changed
ForeignTouched(rows, rows_after, m) ==
    {k \in Existing(rows) : rows[k][1].message # m /\ rows_after[k] # rows[k]}

\* C30: ConversationMessageSerializer.update on message m deletes and
\* changes no image and no attachment that belongs to another message,
\* whatever ids its entries carry.
C30_UpdateTouchesOwnMediaOnly ==
    [][\A m \in DOMAIN messages :
          last'.op = "message.update" /\ last'.returned = {m}
          => /\ ForeignTouched(images, images', m) = {}
             /\ ForeignTouched(attachments, attachments', m) = {}]_vars

====
